---- MODULE Spec2Model ----
(***************************************************************************)
(* The gossip pipeline: four separately invoked stage programs             *)
(*   1 Discovery    (src/1,...RSS...py)   feed entries -> detected records   *)
(*   2 Enrichment   (src/2,...py)         detected -> image_downloaded       *)
(*   3 Composition  (src/3,...py)         image_downloaded -> content_generated *)
(*   5 Publication  (src/5,...py)         content_generated -> posted        *)
(* that share one JSON file (the store).  A stage run loads the whole file *)
(* into memory, loops over the records it selects and writes the whole     *)
(* file back.  A run is modelled step by step (one action per loop         *)
(* iteration) so that an interruption between two iterations is a state.   *)
(***************************************************************************)
EXTENDS Integers, Sequences, FiniteSets, TLC

(* ---------------------------------------------------------------- bounds *)
NumLinks == 2            \* distinct article links the feeds can serve
MaxRuns == 2             \* runs of the sequential runner that are recorded
MaxCode == 2             \* largest return code of a child process (and of a signal number)
MaxEntries == 1          \* entries one feed source serves
MaxClock == 18           \* the wall clock (seconds) stops the model here
MaxCands == 2            \* candidate images of one page, in the pipeline specification
MaxTweets == 2           \* posts the posting API accepts in one behaviour
MaxOver == 1             \* how far a generated text may exceed the budget
MinBase == 4             \* characters of the shortest base_url considered
MaxBase == 28            \* characters of the longest base_url considered
MaxText == 300           \* characters of the longest stored post text considered

(* ----------------------------------------------------- program constants *)
SleepSecs == 6           \* time.sleep(6) after every relevance judgment
EntryCap == 10           \* entries[:10]
MinImageBytes == 10240   \* download_image: minimum size of a kept download
ArticleImageCap == 3     \* get_article_images: image_urls[:3]
MaxRetries == 3          \* max_retries=3 (media judgment, copy generation)
PostBudget == 80         \* "80文字以内" of the generation prompt
TweetLimit == 280        \* post_to_twitter: len(full_text) > 280
UrlAllowance == 25       \* post_to_twitter: max_text_len = 280 - 25 - 5
BreakAllowance == 5      \* post_to_twitter: max_text_len = 280 - 25 - 5
EllipsisLen == 3         \* post_to_twitter: "..."
SepLen == 2              \* post_to_twitter: the two newlines before the URL
IdLen == 15              \* generate_topic_id: '%Y%m%d_%H%M%S'
HtmlLen == 5             \* generate_page_url: ".html"

Links == 1..NumLinks
Sources == <<"s1", "s2">>        \* config['rss_feeds']['sources'], in order
Procs == {"a", "b"}              \* stage processes (one at a time unless overlapping)

NoPath == <<>>                   \* the empty string '' of a path field
StatusOrder == <<"detected", "image_downloaded", "content_generated", "posted">>
NotKilled == [stage |-> "-", pc |-> "-", left |-> 0]   \* no run was killed since the last start

VARIABLES
  file,        \* the persisted store: the sequence of records in the data file
  fileExists,  \* whether the data file exists on disk
  disk,        \* ./images: a function from the paths present to the content stored
  tweets,      \* the posting API's log: record ids of the accepted posts, in order
  now,         \* the wall clock in seconds
  stage,       \* per process: "idle" or the stage program it runs
  pc,          \* per process: position inside the stage program
  data,        \* per process: the in-memory copy of the store
  todo,        \* per process: what the main loop has still to visit
  count,       \* per process: new_topics_count / success_count / posted_count
  cands,       \* per process: all_images still to handle for the current topic
  approved,    \* per process: approved_images of the current topic
  rejected,    \* per process: the downloads of the current topic the judge rejected (history)
  runFeed,     \* per process: the entries the current Discovery run iterates (history)
  sent,        \* per process: len(full_text) of the run's latest create_tweet call (history)
  feed,        \* what each feed source serves (the environment; it does not change)
  runner,      \* the sequential runner: its position in main and the index of the current tool
  started,     \* per run of the runner, the tools it started with their return codes (history)
  waited,      \* per process: the run slept since its latest request to the reasoning service (history)
  discDone,    \* a Discovery run over all of the feed's entries has completed (history)
  lostPost,    \* a run was killed between a post's acceptance and the save (history)
  calls,       \* per process: the external calls the current run has made, in order (history)
  killed       \* where the last run was killed, until the next run starts (history)

vars == <<file, fileExists, disk, tweets, now, stage, pc, data, todo, count,
          cands, approved, rejected, runFeed, sent, feed, runner, started, waited, discDone, lostPost, calls, killed>>

(* ------------------------------------------------------------- utilities *)
SeqsUpTo(S, n) == UNION {[1..k -> S] : k \in 0..n}

RECURSIVE Concat(_, _)
Concat(ss, i) == IF i > Len(ss) THEN <<>> ELSE ss[i] \o Concat(ss, i + 1)

Take(s, n) == SubSeq(s, 1, IF Len(s) < n THEN Len(s) ELSE n)

Indices(keep) == SelectSeq([i \in 1..Len(keep) |-> i], LAMBDA i : keep[i])

Rank(st) == CHOOSE i \in 1..4 : StatusOrder[i] = st

(* ------------------------------------------------------------ the store *)
\* Variant of load_data with a slip: the file is never read.
load_data_empty == <<>>

\* load_data of tools 1 and 2: a missing file reads as the empty list.
load_data == IF fileExists THEN file ELSE <<>>

\* Variant of save_data with a slip: a record that is further along in the
\* file than in the list is kept as the file has it, and records the list does
\* not have stay.
save_data_merge(d) ==
  /\ file' = [i \in 1..(IF Len(file) > Len(d) THEN Len(file) ELSE Len(d)) |->
                IF i > Len(d) THEN file[i]
                ELSE IF i > Len(file) THEN d[i]
                ELSE IF Rank(file[i].status) > Rank(d[i].status) THEN file[i] ELSE d[i]]
  /\ fileExists' = TRUE

\* save_data: the whole list replaces the file.
save_data(d) == /\ file' = d
                /\ fileExists' = TRUE

\* The record Discovery appends (main, lines 243-262).  Fields that no stage
\* reads or writes afterwards (timestamp, source_name, article_title, ...) are
\* left out; texts are kept by their length.
NewTopic(url, id) ==
  [ id                  |-> id,
    source_article_url  |-> url,
    status              |-> "detected",
    article_content     |-> FALSE,
    downloaded_image    |-> NoPath,
    additional_images   |-> <<>>,
    generated_title     |-> 0,
    generated_post_text |-> 0,
    posted_tweet_id     |-> 0,
    posted_at           |-> 0,
    final_url           |-> 0,
    manual_approved     |-> FALSE ]

(* ------------------------------------------------ the process's locals *)
\* An entry of calls: the service, what it was called for (the entry's link, the
\* record's id) and the number of requests sent (the attempts).
Call(svc, arg, n) == [svc |-> svc, arg |-> arg, n |-> n]

Idle(p) == /\ stage' = [stage EXCEPT ![p] = "idle"]
           /\ pc' = [pc EXCEPT ![p] = "-"]
           /\ data' = [data EXCEPT ![p] = <<>>]
           /\ todo' = [todo EXCEPT ![p] = <<>>]
           /\ count' = [count EXCEPT ![p] = 0]
           /\ cands' = [cands EXCEPT ![p] = <<>>]
           /\ approved' = [approved EXCEPT ![p] = <<>>]
           /\ rejected' = [rejected EXCEPT ![p] = {}]
           /\ runFeed' = [runFeed EXCEPT ![p] = <<>>]
           /\ calls' = [calls EXCEPT ![p] = <<>>]
           /\ sent' = [sent EXCEPT ![p] = 0]

\* Stage programs are started one at a time (spec section 5); overlap lifts that.
CanStart(p, overlap) == /\ stage[p] = "idle"
                        /\ overlap \/ \A q \in Procs : stage[q] = "idle"

(* ------------------------------------------------- the classifier's text *)
\* A response text is a sequence of tokens: the code-block fence (three
\* backquotes), the word "json", a JSON value, or junk (text that is no JSON).
Fence == [t |-> "fence"]
JsonWord == [t |-> "json"]
JunkTok == [t |-> "junk"]
Value(j) == [t |-> "value", v |-> j]

None == [t |-> "None"]
ValueError == [t |-> "ValueError"]
ApiError == <<[t |-> "exception"]>>     \* generate_content raised (network, quota)

Wrap(j) == { <<Value(j)>>, <<Fence, Value(j), Fence>>, <<Fence, JsonWord, Value(j), Fence>> }
Junk == { <<JunkTok>>, <<Fence, JunkTok, Fence>> }

\* result_text.split(fence)[1]: the tokens between the first and second fence.
RECURSIVE UpToFence(_)
UpToFence(t) == IF t = <<>> \/ Head(t) = Fence THEN <<>>
                ELSE <<Head(t)>> \o UpToFence(Tail(t))

\* Lines 144-148 of tool 1 (102-106 of tool 3): strip a markdown code block.
StripFence(t) ==
  IF t # <<>> /\ Head(t) = Fence
  THEN LET inner == UpToFence(Tail(t))
       IN IF inner # <<>> /\ Head(inner) = JsonWord THEN Tail(inner) ELSE inner
  ELSE t

\* json.loads: the value, or ValueError when the text is not one JSON value.
JsonLoads(t) == IF Len(t) = 1 /\ t[1].t = "value" THEN t[1].v ELSE ValueError

(* ------------------------------------------------------------- Discovery *)
\* What the sources serve: per source the links of its entries.  Links are
\* numbered in the order of their first appearance (their names do not matter).
FirstUse(flat) == \A i \in 1..Len(flat) : \A l \in 1..(flat[i] - 1) :
                    \E j \in 1..(i - 1) : flat[j] = l
Feeds == { f \in [1..Len(Sources) -> SeqsUpTo(Links, MaxEntries)] : FirstUse(Concat(f, 1)) }

\* get_rss_entries: the entries, or [] when the feed does not parse (bozo) or the
\* fetch raises.
get_rss_entries(entries, bozo) == IF bozo THEN <<>> ELSE entries

\* The links main iterates, source after source, at most EntryCap per source.
RunEntries(f, bozo) ==
  Concat([i \in 1..Len(Sources) |-> Take(get_rss_entries(f[i], bozo[i]), EntryCap)], 1)

AllEntries == RunEntries(feed, [i \in 1..Len(Sources) |-> FALSE])

\* The relevance verdicts the classifier may send (topic: whether the key is there).
GossipJson == [is_celebrity_gossip : BOOLEAN, celebrities : BOOLEAN, topic : BOOLEAN]
GossipReplies == {ApiError} \cup Junk \cup UNION {Wrap(j) : j \in GossipJson}

\* Variant of check_celebrity_gossip with a slip: a failure counts as a
\* relevant article.
check_celebrity_gossip_default(reply) ==
  IF reply = ApiError THEN [is_celebrity_gossip |-> TRUE, celebrities |-> TRUE, topic |-> TRUE]
  ELSE LET r == JsonLoads(StripFence(reply))
       IN IF r = ValueError
          THEN [is_celebrity_gossip |-> TRUE, celebrities |-> TRUE, topic |-> TRUE]
          ELSE r

\* check_celebrity_gossip: the parsed result, or None on any exception.
check_celebrity_gossip(reply) ==
  IF reply = ApiError THEN None
  ELSE LET r == JsonLoads(StripFence(reply))
       IN IF r = ValueError THEN None ELSE r

\* Variants of is_already_processed with a slip: never true; compares the id.
is_already_processed_never(d, article_url) == FALSE
is_already_processed_byid(d, article_url) ==
  \E i \in 1..Len(d) : d[i].id = article_url

\* Variant with a slip: only the latest record is compared.
is_already_processed_last(d, article_url) ==
  d # <<>> /\ d[Len(d)].source_article_url = article_url

is_already_processed(d, article_url) ==
  \E i \in 1..Len(d) : d[i].source_article_url = article_url

\* Variant of generate_topic_id with a slip: the format stops at the minute.
generate_topic_id_minute(t) == t \div 60

\* datetime.now().strftime('%Y%m%d_%H%M%S'): the clock at second resolution.
generate_topic_id(t) == t

DiscStart(p, overlap) ==
  /\ CanStart(p, overlap)
  /\ \E bozo \in [1..Len(Sources) -> BOOLEAN] :
       /\ todo' = [todo EXCEPT ![p] = RunEntries(feed, bozo)]
       /\ runFeed' = [runFeed EXCEPT ![p] = RunEntries(feed, bozo)]
  /\ stage' = [stage EXCEPT ![p] = "discovery"]
  /\ pc' = [pc EXCEPT ![p] = "loop"]
  /\ data' = [data EXCEPT ![p] = load_data]
  /\ count' = [count EXCEPT ![p] = 0]
  /\ killed' = NotKilled
  /\ waited' = [waited EXCEPT ![p] = TRUE]
  /\ UNCHANGED <<file, fileExists, disk, tweets, now, cands, approved, rejected, feed, runner, started, discDone,
                 lostPost, calls, sent>>

\* One iteration of "for entry in entries[:10]" (lines 204-267), the classifier
\* answering with reply when it is called.
DiscStep(p, reply) ==
  /\ stage[p] = "discovery" /\ todo[p] # <<>>
  /\ LET article_url == Head(todo[p]) IN
     IF is_already_processed(data[p], article_url)
     THEN /\ todo' = [todo EXCEPT ![p] = Tail(todo[p])]
          /\ UNCHANGED <<file, fileExists, disk, tweets, now, stage, pc, data, count,
                         cands, approved, rejected, runFeed, sent, calls, feed, runner, started, waited, discDone, lostPost, killed>>
     ELSE LET result == check_celebrity_gossip(reply)
              called == [calls EXCEPT ![p] = Append(calls[p], Call("classifier", article_url, 1))]
          IN
          /\ now + SleepSecs <= MaxClock
          /\ now' = now + SleepSecs
          /\ IF result = None
             THEN /\ todo' = [todo EXCEPT ![p] = Tail(todo[p])]
                  /\ calls' = called
                  /\ UNCHANGED <<stage, pc, data, count, cands, approved, rejected, runFeed, sent>>
             ELSE IF result.is_celebrity_gossip /\ result.celebrities
             THEN IF result.topic
                  THEN /\ data' = [data EXCEPT ![p] =
                                     Append(data[p], NewTopic(article_url, generate_topic_id(now')))]
                       /\ count' = [count EXCEPT ![p] = count[p] + 1]
                       /\ todo' = [todo EXCEPT ![p] = Tail(todo[p])]
                       /\ calls' = called
                       /\ UNCHANGED <<stage, pc, cands, approved, rejected, runFeed, sent>>
                  ELSE Idle(p)       \* result['topic']: KeyError ends the run
             ELSE /\ todo' = [todo EXCEPT ![p] = Tail(todo[p])]
                  /\ calls' = called
                  /\ UNCHANGED <<stage, pc, data, count, cands, approved, rejected, runFeed, sent>>
          /\ waited' = [waited EXCEPT ![p] = TRUE]      \* time.sleep(6), line 233
          /\ UNCHANGED <<file, fileExists, disk, tweets, feed, runner, started, discDone, lostPost, killed>>

DiscEntry(p) == \E reply \in GossipReplies : DiscStep(p, reply)

\* Lines 269-275: the store is written only when the run appended something.
DiscFinish(p) ==
  /\ stage[p] = "discovery" /\ todo[p] = <<>>
  /\ IF count[p] > 0 THEN save_data(data[p]) ELSE UNCHANGED <<file, fileExists>>
  /\ discDone' = (discDone \/ runFeed[p] = AllEntries)
  /\ Idle(p)
  /\ UNCHANGED <<disk, tweets, now, feed, runner, started, waited, lostPost, killed>>

(* ------------------------------------------------------------ Enrichment *)
\* ./images is a set of files, each a path and the content written to it.  The
\* content of a download is named by the topic and the candidate it came from.
WriteFile(d, path, c) == {f \in d : f.path # path} \cup {[path |-> path, content |-> c]}
RemoveFile(d, path) == {f \in d : f.path # path}
PathExists(d, path) == \E f \in d : f.path = path

\* save_path (line 272): topic id, the celebrities' names (fixed by the topic, so
\* not kept) and img_number.
SavePath(topic_id, img_number) == <<topic_id, img_number>>

\* What requests.get of the article page yields: an error, or a page with or
\* without body text, with or without og:image, and with some article images.
Pages == [ok : BOOLEAN, content : BOOLEAN, og : BOOLEAN, imgs : 0..(ArticleImageCap + 1)]

\* get_article_images: image_urls[:3]
get_article_images(page) == IF page.imgs < ArticleImageCap THEN page.imgs ELSE ArticleImageCap

\* all_images (lines 248-253): og_image first, then article_1.. ; candidates are
\* numbered in that order.
AllImages(page) ==
  [k \in 1..((IF page.og THEN 1 ELSE 0) + get_article_images(page)) |-> k]

\* What requests.get of an image yields: an error, or a body of some size.
Downloads == { [err |-> TRUE, size |-> 0],
               [err |-> FALSE, size |-> MinImageBytes - 1],
               [err |-> FALSE, size |-> MinImageBytes] }

\* download_image: True iff the body arrived and has at least 10240 bytes.
download_image(dl) == ~dl.err /\ ~(dl.size < MinImageBytes)

\* response.text.strip().upper() over the answers the judge may give.
JudgeTexts == {"OK", "ok", "NG", "ng", ""}
Upper(txt) == CASE txt = "ok" -> "OK" [] txt = "ng" -> "NG" [] OTHER -> txt
ContainsOK(txt) == txt = "OK"

\* The attempts of one media judgment: each raises or answers with a text.
JudgeAttempts == {"exception"} \cup JudgeTexts
JudgeScripts ==
  { [i \in 1..(k + 1) |-> IF i <= k THEN "exception" ELSE txt] :
      k \in 0..(MaxRetries - 1), txt \in JudgeTexts }
  \cup { [i \in 1..(MaxRetries + 1) |-> "exception"] }

\* judge_image_with_gemini: the first attempt that does not raise decides;
\* False when all max_retries attempts raised.
RECURSIVE JudgeFrom(_, _, _)
JudgeFrom(script, attempt, max_retries) ==
  IF attempt > max_retries \/ attempt > Len(script) THEN FALSE
  ELSE IF script[attempt] = "exception" THEN JudgeFrom(script, attempt + 1, max_retries)
  ELSE ContainsOK(Upper(script[attempt]))

judge_image_with_gemini(script) == JudgeFrom(script, 1, MaxRetries)

\* Variant of RejectDisk with a slip: the rejected download is left on disk.
RejectDiskKeep(d, save_path, content) == WriteFile(d, save_path, content)

\* Lines 275 and 283-285: the download is written to save_path, the judge says
\* no, os.remove(save_path).
RejectDisk(d, save_path, content) == RemoveFile(WriteFile(d, save_path, content), save_path)

\* Variant of DetectedTopics with a slip: a record whose page was fetched
\* before is not selected again.
DetectedTopicsFresh(d) ==
  Indices([i \in 1..Len(d) |-> d[i].status = "detected" /\ ~d[i].article_content])

\* Variant of DetectedTopics with a slip: the status filter is missing.
DetectedTopicsAll(d) == Indices([i \in 1..Len(d) |-> TRUE])

\* "detected_topics = [t for t in data if t['status'] == 'detected']", as indices.
DetectedTopics(d) == Indices([i \in 1..Len(d) |-> d[i].status = "detected"])

EnrStart(p, overlap) ==
  /\ CanStart(p, overlap)
  /\ stage' = [stage EXCEPT ![p] = "enrichment"]
  /\ data' = [data EXCEPT ![p] = load_data]
  /\ todo' = [todo EXCEPT ![p] = DetectedTopics(load_data)]
  /\ pc' = [pc EXCEPT ![p] = IF DetectedTopics(load_data) = <<>> THEN "return" ELSE "loop"]
  /\ count' = [count EXCEPT ![p] = 0]
  /\ killed' = NotKilled
  /\ waited' = [waited EXCEPT ![p] = TRUE]
  /\ UNCHANGED <<file, fileExists, disk, tweets, now, cands, approved, rejected, runFeed, sent, calls,
                 feed, runner, started, discDone, lostPost>>

\* Lines 331-333: nothing to do, return without saving.
EnrReturn(p) ==
  /\ stage[p] = "enrichment" /\ pc[p] = "return"
  /\ Idle(p)
  /\ UNCHANGED <<file, fileExists, disk, tweets, now, feed, runner, started, waited, discDone, lostPost, killed>>

\* process_topic, lines 211-259: fetch the page, keep its text, list the images.
\* maxc bounds the pages considered to those with at most maxc candidates.
EnrTopic(p, maxc) ==
  /\ stage[p] = "enrichment" /\ pc[p] = "loop" /\ todo[p] # <<>>
  /\ \E page \in Pages :
       LET i == Head(todo[p]) IN
       /\ Len(AllImages(page)) <= maxc
       /\ IF ~page.ok
          THEN /\ todo' = [todo EXCEPT ![p] = Tail(todo[p])]
               /\ UNCHANGED <<data, pc, cands, approved, rejected>>
          ELSE /\ data' = [data EXCEPT ![p][i].article_content =
                             IF page.content THEN TRUE ELSE @]
               /\ IF AllImages(page) = <<>>
                  THEN /\ todo' = [todo EXCEPT ![p] = Tail(todo[p])]
                       /\ UNCHANGED <<pc, cands, approved, rejected>>
                  ELSE /\ cands' = [cands EXCEPT ![p] = AllImages(page)]
                       /\ approved' = [approved EXCEPT ![p] = <<>>]
                       /\ rejected' = [rejected EXCEPT ![p] = {}]
                       /\ pc' = [pc EXCEPT ![p] = "cand"]
                       /\ UNCHANGED todo
  /\ UNCHANGED <<file, fileExists, disk, tweets, now, stage, count, runFeed, sent, calls,
                 feed, runner, started, waited, discDone, lostPost, killed>>

\* One iteration of "for img_type, image_url in all_images" (lines 264-290),
\* the download ending as dl says and the judge answering as the script says.
EnrCandStep(p, dl, script) ==
  /\ stage[p] = "enrichment" /\ pc[p] = "cand" /\ cands[p] # <<>>
  /\   LET topic == data[p][Head(todo[p])]
           img_number == Len(approved[p]) + 2
           save_path == SavePath(topic.id, img_number)
           content == <<topic.id, Head(cands[p])>>
       IN IF download_image(dl)
          THEN IF judge_image_with_gemini(script)
               THEN /\ disk' = WriteFile(disk, save_path, content)
                    /\ approved' = [approved EXCEPT ![p] = Append(approved[p], save_path)]
                    /\ UNCHANGED rejected
               ELSE /\ disk' = RejectDisk(disk, save_path, content)
                    /\ rejected' = [rejected EXCEPT ![p] = @ \cup {content}]
                    /\ UNCHANGED approved
          ELSE UNCHANGED <<disk, approved, rejected>>
  /\ cands' = [cands EXCEPT ![p] = Tail(cands[p])]
  \* time.sleep(3) after the judgment, line 288
  /\ waited' = [waited EXCEPT ![p] = IF download_image(dl) THEN TRUE ELSE @]
  /\ UNCHANGED <<file, fileExists, tweets, now, stage, pc, data, todo, count, runFeed, sent, calls,
                 feed, runner, started, discDone, lostPost, killed>>

EnrCandidate(p) == \E dl \in Downloads, script \in JudgeScripts : EnrCandStep(p, dl, script)

\* Variant of PromoteTopic with a slip: the primary image is listed among the
\* additional images as well.
PromoteTopicAll(topic, appr, d) ==
  [topic EXCEPT !.downloaded_image = appr[1],
                !.additional_images = appr,
                !.status = "image_downloaded"]

\* Variant of PromoteTopic with a slip: the references are not moved on when
\* the first approved image is removed.
PromoteTopicKeepFirst(topic, appr, d) ==
  [topic EXCEPT !.downloaded_image = appr[1],
                !.additional_images = IF Len(appr) > 1 THEN Tail(appr) ELSE @,
                !.status = "image_downloaded"]

\* Variant of PromoteTopic with a slip: the status of the next stage is set.
PromoteTopicSkip(topic, appr, d) ==
  [topic EXCEPT !.downloaded_image = appr[1], !.status = "content_generated"]

\* Lines 293-310 on the topic record: the references the topic gets.
PromoteTopic(topic, appr, d) ==
  LET t1 == [topic EXCEPT !.downloaded_image = appr[1],
                          !.additional_images = IF Len(appr) > 1 THEN Tail(appr) ELSE @,
                          !.status = "image_downloaded"]
  IN IF Len(appr) >= 2 /\ PathExists(d, appr[1])
     THEN LET rest == Tail(appr)
          IN [t1 EXCEPT !.downloaded_image = rest[1],
                        !.additional_images = IF Len(rest) > 1 THEN Tail(rest) ELSE <<>>]
     ELSE t1

\* Variant of PromoteDisk with a slip: the last approved image is removed.
PromoteDiskLast(appr, d) ==
  IF Len(appr) >= 2 /\ PathExists(d, appr[1]) THEN RemoveFile(d, appr[Len(appr)]) ELSE d

\* Lines 299-303 on the disk: with two or more approved images the first is removed.
PromoteDisk(appr, d) ==
  IF Len(appr) >= 2 /\ PathExists(d, appr[1]) THEN RemoveFile(d, appr[1]) ELSE d

\* The end of process_topic (lines 292-316) and of the loop body in main.
EnrTopicDone(p) ==
  /\ stage[p] = "enrichment" /\ pc[p] = "cand" /\ cands[p] = <<>>
  /\ LET i == Head(todo[p]) IN
     IF approved[p] # <<>>
     THEN /\ data' = [data EXCEPT ![p][i] = PromoteTopic(data[p][i], approved[p], disk)]
          /\ disk' = PromoteDisk(approved[p], disk)
          /\ count' = [count EXCEPT ![p] = count[p] + 1]
     ELSE UNCHANGED <<data, disk, count>>
  /\ todo' = [todo EXCEPT ![p] = Tail(todo[p])]
  /\ approved' = [approved EXCEPT ![p] = <<>>]
  /\ pc' = [pc EXCEPT ![p] = "loop"]
  /\ UNCHANGED <<file, fileExists, tweets, now, stage, cands, rejected, runFeed, sent, calls, feed, runner, started, waited,
                 discDone, lostPost, killed>>

\* Lines 353-355: the store is written after the loop, whatever it achieved.
EnrSave(p) ==
  /\ stage[p] = "enrichment" /\ pc[p] = "loop" /\ todo[p] = <<>>
  /\ save_data(data[p])
  /\ Idle(p)
  /\ UNCHANGED <<disk, tweets, now, feed, runner, started, waited, discDone, lostPost, killed>>

(* ----------------------------------------------------------- Composition *)
\* Texts are kept by their length in characters.
TitleLens == {0, 1}
TextLens == {0} \cup (PostBudget..(PostBudget + MaxOver))

\* What the generation service may send as JSON: title and post_text, an
\* object without these keys, or a value that is false in a condition ({}, [], 0).
NoKeys == [t |-> "nokeys"]
EmptyObj == [t |-> "empty"]
GenJson == [title : TitleLens, post_text : TextLens]

\* str(e) of a quota error carries "429"; every other failure does not.
QuotaError == <<[t |-> "exception429"]>>
GenFailures == {ApiError, QuotaError} \cup Junk
GenSuccesses == UNION {Wrap(j) : j \in GenJson \cup {NoKeys, EmptyObj}}

\* The attempts of one generate_content call: failures, then maybe a success.
GenScripts ==
  UNION { [1..k -> GenFailures] : k \in 1..(MaxRetries + 1) }
  \cup UNION { { Append(fls, ok) : fls \in [1..k -> GenFailures], ok \in GenSuccesses } :
                k \in 0..MaxRetries }

\* The scripts whose failed attempts are all of one kind.
GenScriptsPlain ==
  { script \in GenScripts :
      \A m, n \in 1..Len(script) :
        (script[m] \in GenFailures /\ script[n] \in GenFailures) => script[m] = script[n] }

\* generate_content, lines 96-138: the first attempt that parses is returned;
\* None when all max_retries attempts failed.
RECURSIVE GenFrom(_, _, _)
GenFrom(script, attempt, max_retries) ==
  IF attempt > max_retries \/ attempt > Len(script) THEN None
  ELSE IF script[attempt] \in {ApiError, QuotaError}
       THEN GenFrom(script, attempt + 1, max_retries)
  ELSE LET r == JsonLoads(StripFence(script[attempt]))
       IN IF r = ValueError THEN GenFrom(script, attempt + 1, max_retries) ELSE r

\* Variant of generate_content with a slip: one attempt less.
generate_content_short(script) == GenFrom(script, 1, MaxRetries - 1)

generate_content(script) == GenFrom(script, 1, MaxRetries)

\* The number of requests generate_content sends (line 98): one per attempt, up
\* to the first that parses or to max_retries.
RECURSIVE GenCalls(_, _, _)
GenCalls(script, attempt, max_retries) ==
  IF attempt > max_retries \/ attempt > Len(script) THEN 0
  ELSE IF script[attempt] \notin {ApiError, QuotaError}
          /\ JsonLoads(StripFence(script[attempt])) # ValueError
       THEN 1
  ELSE 1 + GenCalls(script, attempt + 1, max_retries)

\* Whether generate_content sleeps after its last request: a response that
\* parses is returned at once (lines 108-109), a quota error is followed by a
\* wait at every attempt (lines 115-130), any other error only when an attempt
\* is left (lines 131-136).
RECURSIVE GenRested(_, _, _)
GenRested(script, attempt, max_retries) ==
  IF attempt > max_retries \/ attempt > Len(script) THEN TRUE
  ELSE IF script[attempt] \notin {ApiError, QuotaError}
          /\ JsonLoads(StripFence(script[attempt])) # ValueError
       THEN FALSE
  ELSE IF attempt = max_retries \/ attempt = Len(script)
       THEN script[attempt] = QuotaError
  ELSE GenRested(script, attempt + 1, max_retries)

\* generate_for_topic, lines 165-173: a result that is false in a condition is
\* reported as a failure (None).
generate_for_topic(script) ==
  LET content == generate_content(script)
  IN IF content = EmptyObj THEN None ELSE content

\* Lines 208-210: the record takes the generated copy as it came.
ComposeTopic(topic, content) ==
  [topic EXCEPT !.generated_title = content.title,
                !.generated_post_text = content.post_text,
                !.status = "content_generated"]

\* Variant of PendingTopics with a slip: only the first pending record is selected.
PendingTopicsFirst(d) ==
  Take(Indices([i \in 1..Len(d) |-> d[i].status = "image_downloaded" /\ d[i].generated_title = 0]), 1)

\* Variant of PendingTopics with a slip: the status is not looked at.
PendingTopicsAnyStatus(d) == Indices([i \in 1..Len(d) |-> d[i].generated_title = 0])

\* pending_topics (line 186), as indices.
PendingTopics(d) ==
  Indices([i \in 1..Len(d) |-> d[i].status = "image_downloaded" /\ d[i].generated_title = 0])

\* load_data of tools 3 and 5 raises when the file is missing: the run ends at
\* once and nothing changes, so a run is modelled only when the file exists.
CompStart(p, overlap) ==
  /\ CanStart(p, overlap)
  /\ fileExists
  /\ stage' = [stage EXCEPT ![p] = "composition"]
  /\ data' = [data EXCEPT ![p] = file]
  /\ todo' = [todo EXCEPT ![p] = PendingTopics(file)]
  /\ pc' = [pc EXCEPT ![p] = IF PendingTopics(file) = <<>> THEN "return" ELSE "loop"]
  /\ count' = [count EXCEPT ![p] = 0]
  /\ killed' = NotKilled
  /\ waited' = [waited EXCEPT ![p] = TRUE]
  /\ UNCHANGED <<file, fileExists, disk, tweets, now, cands, approved, rejected, runFeed, sent, calls,
                 feed, runner, started, discDone, lostPost>>

\* Lines 188-191.
CompReturn(p) ==
  /\ stage[p] = "composition" /\ pc[p] = "return"
  /\ Idle(p)
  /\ UNCHANGED <<file, fileExists, disk, tweets, now, feed, runner, started, waited, discDone, lostPost, killed>>

\* The loop body of main from the return of generate_for_topic on (lines
\* 206-213): content is what it returned after n requests.
CompResult(p, content, n) ==
  /\ stage[p] = "composition" /\ pc[p] = "loop" /\ todo[p] # <<>>
  /\ LET i == Head(todo[p])
         called == [calls EXCEPT ![p] = Append(calls[p], Call("generation", data[p][i].id, n))]
     IN IF content = None
        THEN /\ todo' = [todo EXCEPT ![p] = Tail(todo[p])]
             /\ calls' = called
             /\ UNCHANGED <<stage, pc, data, count, cands, approved, rejected, runFeed, sent>>
        ELSE IF content = NoKeys
        THEN Idle(p)               \* content['title']: KeyError ends the run
        ELSE /\ data' = [data EXCEPT ![p][i] = ComposeTopic(data[p][i], content)]
             /\ todo' = [todo EXCEPT ![p] = Tail(todo[p])]
             /\ calls' = called
             /\ UNCHANGED <<stage, pc, count, cands, approved, rejected, runFeed, sent>>
  /\ UNCHANGED <<file, fileExists, disk, tweets, now, feed, runner, started, discDone, lostPost, killed>>

\* One iteration of "for topic in pending_topics" (lines 203-213), the
\* generation service answering the attempts as the script says.
CompStep(p, script) ==
  /\ CompResult(p, generate_for_topic(script), GenCalls(script, 1, MaxRetries))
  /\ waited' = [waited EXCEPT ![p] = GenRested(script, 1, MaxRetries)]

\* scripts bounds the answers of the generation service that are considered.
CompTopic(p, scripts) == \E script \in scripts : CompStep(p, script)

\* Lines 215-217.
CompSave(p) ==
  /\ stage[p] = "composition" /\ pc[p] = "loop" /\ todo[p] = <<>>
  /\ save_data(data[p])
  /\ Idle(p)
  /\ UNCHANGED <<disk, tweets, now, feed, runner, started, waited, discDone, lostPost, killed>>

(* ----------------------------------------------------------- Publication *)
\* generate_page_url: base_url joined with the topic id; named by the id.
generate_page_url(topic_id) == topic_id

\* Variant of StampTopic with a slip: the status is not advanced.
StampTopicNoStatus(topic, tweet_id, t) ==
  [topic EXCEPT !.posted_tweet_id = tweet_id,
                !.posted_at = t,
                !.final_url = generate_page_url(topic.id)]

\* Lines 186-189: the record of an accepted post.
StampTopic(topic, tweet_id, t) ==
  [topic EXCEPT !.posted_tweet_id = tweet_id,
                !.status = "posted",
                !.posted_at = t,
                !.final_url = generate_page_url(topic.id)]

\* Variant of ReadyTopics with a slip: the status is not looked at.
ReadyTopicsAnyStatus(d) == Indices([i \in 1..Len(d) |-> d[i].posted_tweet_id = 0])

\* ready_topics (lines 143-147), as indices.
ReadyTopics(d) ==
  Indices([i \in 1..Len(d) |-> d[i].status = "content_generated" /\ d[i].posted_tweet_id = 0])

\* approve_topic_interactive: the operator's answers are read until one is y, n
\* or q; True, False or None.
Answers == { <<a>> : a \in {"y", "n", "q"} } \cup { <<"x", a>> : a \in {"y", "n", "q"} }
\* Variant of approve_topic_interactive with a slip: q skips the record
\* instead of ending the run.
approve_topic_interactive_goon(answers) ==
  IF answers[Len(answers)] = "y" THEN "True" ELSE "False"

\* Variant of approve_topic_interactive with a slip: every answer but q approves.
approve_topic_interactive_yes(answers) ==
  IF answers[Len(answers)] = "q" THEN "None" ELSE "True"

RECURSIVE approve_topic_interactive(_)
approve_topic_interactive(answers) ==
  CASE Head(answers) = "y" -> "True"
    [] Head(answers) = "n" -> "False"
    [] Head(answers) = "q" -> "None"
    [] OTHER -> approve_topic_interactive(Tail(answers))

PubStart(p, overlap) ==
  /\ CanStart(p, overlap)
  /\ fileExists
  /\ stage' = [stage EXCEPT ![p] = "publication"]
  /\ data' = [data EXCEPT ![p] = file]
  /\ todo' = [todo EXCEPT ![p] = ReadyTopics(file)]
  /\ pc' = [pc EXCEPT ![p] = IF ReadyTopics(file) = <<>> THEN "return" ELSE "loop"]
  /\ count' = [count EXCEPT ![p] = 0]
  /\ killed' = NotKilled
  /\ waited' = [waited EXCEPT ![p] = TRUE]
  /\ UNCHANGED <<file, fileExists, disk, tweets, now, cands, approved, rejected, runFeed, sent, calls,
                 feed, runner, started, discDone, lostPost>>

\* Variant of post_to_twitter with a slip: an id is returned even when
\* create_tweet raised.
post_to_twitter_always(accepted, tweet_id) == tweet_id

\* post_to_twitter, lines 87-99: the id of the post, or None (0) when
\* create_tweet raised.
post_to_twitter(accepted, tweet_id) == IF accepted THEN tweet_id ELSE 0

\* config['github_pages']['base_url'] by its length, with or without the
\* closing slash.
BaseUrls == { [len |-> MinBase, slash |-> FALSE], [len |-> MaxBase, slash |-> TRUE] }

\* len(generate_page_url(base_url, topic_id)): a slash is added when missing,
\* then the id and ".html".
PageUrlLen(base_url) ==
  base_url.len + (IF base_url.slash THEN 0 ELSE 1) + IdLen + HtmlLen

\* len(post_text[:k])
SliceLen(n, k) == IF n < k THEN n ELSE k

\* len(full_text) as post_to_twitter hands it to create_tweet (lines 78-85).
FullTextLen(post_len, url_len) ==
  LET full == post_len + SepLen + url_len
  IN IF full > TweetLimit
     THEN SliceLen(post_len, TweetLimit - UrlAllowance - BreakAllowance)
            + EllipsisLen + SepLen + url_len
     ELSE full

\* One iteration of "for topic in ready_topics" up to the return of
\* post_to_twitter and the update of the record in memory (lines 170-190), the
\* operator typing answers and the posting API accepting the post or not.
PubStep(p, answers, accepted) ==
  /\ stage[p] = "publication" /\ pc[p] = "loop" /\ todo[p] # <<>>
  /\ LET i == Head(todo[p])
         topic == data[p][i]
         approval == approve_topic_interactive(answers)
         tweet_id == post_to_twitter(accepted, Len(tweets) + 1)
     IN IF approval = "None"
        THEN /\ pc' = [pc EXCEPT ![p] = "return"]
             /\ UNCHANGED <<tweets, data, todo, calls, sent>>
        ELSE IF approval = "False"
        THEN /\ todo' = [todo EXCEPT ![p] = Tail(todo[p])]
             /\ UNCHANGED <<tweets, data, pc, calls, sent>>
        ELSE /\ calls' = [calls EXCEPT ![p] = Append(calls[p], Call("post", topic.id, 1))]
             /\ \E base_url \in BaseUrls :
                  sent' = [sent EXCEPT ![p] =
                             FullTextLen(topic.generated_post_text, PageUrlLen(base_url))]
             /\ IF accepted
                THEN /\ Len(tweets) < MaxTweets
                     /\ tweets' = Append(tweets, topic.id)
                ELSE UNCHANGED tweets
             /\ IF tweet_id # 0
                THEN /\ data' = [data EXCEPT ![p][i] = StampTopic(topic, tweet_id, now)]
                     /\ pc' = [pc EXCEPT ![p] = "save"]
                     /\ UNCHANGED todo
                ELSE /\ todo' = [todo EXCEPT ![p] = Tail(todo[p])]
                     /\ UNCHANGED <<data, pc>>
  /\ UNCHANGED <<file, fileExists, disk, now, stage, count, cands, approved, rejected, runFeed,
                 feed, runner, started, waited, discDone, lostPost, killed>>

PubTopic(p) == \E answers \in Answers, accepted \in BOOLEAN : PubStep(p, answers, accepted)

\* Variant of PubSave with a slip: the store is not written after a post.
PubSaveNoWrite(p) ==
  /\ stage[p] = "publication" /\ pc[p] = "save"
  /\ count' = [count EXCEPT ![p] = count[p] + 1]
  /\ todo' = [todo EXCEPT ![p] = Tail(todo[p])]
  /\ pc' = [pc EXCEPT ![p] = "loop"]
  /\ UNCHANGED <<file, fileExists, disk, tweets, now, stage, data, cands, approved, rejected,
                 runFeed, sent, calls, feed, runner, started, waited, discDone, lostPost, killed>>

\* Lines 190-193: the store is written after every post.
PubSave(p) ==
  /\ stage[p] = "publication" /\ pc[p] = "save"
  /\ save_data(data[p])
  /\ count' = [count EXCEPT ![p] = count[p] + 1]
  /\ todo' = [todo EXCEPT ![p] = Tail(todo[p])]
  /\ pc' = [pc EXCEPT ![p] = "loop"]
  /\ UNCHANGED <<disk, tweets, now, stage, data, cands, approved, rejected, runFeed, sent, calls, feed, runner, started, waited, discDone, lostPost, killed>>

\* The run ends: nothing to post (lines 149-152), the operator quit (line 176)
\* or the loop is over.  Nothing is written here.
PubReturn(p) ==
  /\ stage[p] = "publication"
  /\ pc[p] = "return" \/ (pc[p] = "loop" /\ todo[p] = <<>>)
  /\ Idle(p)
  /\ UNCHANGED <<file, fileExists, disk, tweets, now, feed, runner, started, waited, discDone, lostPost, killed>>

(* ---------------------------------------------------------- interruption *)
\* The process is killed between two steps: its memory is lost, nothing is saved.
Crash(p) ==
  /\ stage[p] # "idle"
  /\ Idle(p)
  /\ lostPost' = (lostPost \/ (stage[p] = "publication" /\ pc[p] = "save"))
  /\ killed' = [stage |-> stage[p], pc |-> pc[p], left |-> Len(todo[p])]
  /\ UNCHANGED <<file, fileExists, disk, tweets, now, feed, runner, started, waited, discDone>>

(* ------------------------------------------------------------ the runner *)
(* src/6: main starts the tools of its list one after another as child       *)
(* processes and waits for each; what a tool does is not the runner's        *)
(* concern, only the return code it ends with.                               *)

\* The tools of main, in list order (lines 39-45).
tools == <<"monitor_rss.py", "download_images.py", "upscale.py", "generate.py", "onelink.py">>

\* The return codes a child process can end with; below 0 a signal ended it.
ReturnCodes == (0 - MaxCode)..MaxCode

\* The runner is not running.
RunnerIdle == [pc |-> "idle", i |-> 0]

\* What the runner leaves alone: the store, the images, the stage processes.
pipeline == <<file, fileExists, disk, tweets, now, stage, pc, data, todo, count, cands,
              approved, rejected, runFeed, sent, feed, waited, discDone, lostPost, calls, killed>>

\* Variant of run_script that reports success whatever the child returned.
run_script_always(returncode) == TRUE

\* run_script (lines 20-30): subprocess.run with check=True raises
\* CalledProcessError on a nonzero return code and the handler returns False;
\* otherwise True is returned.
run_script(returncode) == returncode = 0

\* main begins (lines 33-48): the loop stands before the first tool.
MainStart ==
  /\ runner.pc = "idle" /\ Len(started) < MaxRuns
  /\ runner' = [pc |-> "loop", i |-> 1]
  /\ started' = Append(started, <<>>)
  /\ UNCHANGED pipeline

\* run_script up to subprocess.run (lines 15-24): the child process of the
\* current tool is started and the runner waits for it.
RunScript ==
  /\ runner.pc = "loop" /\ runner.i <= Len(tools)
  /\ runner' = [runner EXCEPT !.pc = "child"]
  /\ started' = [started EXCEPT ![Len(started)] =
                   Append(@, [script |-> tools[runner.i], state |-> "running", returncode |-> 0])]
  /\ UNCHANGED pipeline

\* The child ends with returncode: run_script returns, and main goes on to
\* the next tool or returns (lines 24-30 and 49-53).
ChildExit(returncode) ==
  /\ runner.pc = "child"
  /\ started' = [started EXCEPT ![Len(started)] =
                   [@ EXCEPT ![Len(@)] = [@ EXCEPT !.state = "exited", !.returncode = returncode]]]
  /\ runner' = IF run_script(returncode) THEN [pc |-> "loop", i |-> runner.i + 1] ELSE RunnerIdle
  /\ UNCHANGED pipeline

\* An exception other than CalledProcessError (KeyboardInterrupt, OSError)
\* is caught neither by run_script (line 27) nor by main: the runner ends, and
\* subprocess.run has killed a child that was still running.
Interrupt ==
  /\ runner.pc # "idle"
  /\ started' = IF runner.pc = "child"
                  THEN [started EXCEPT ![Len(started)] = [@ EXCEPT ![Len(@)] = [@ EXCEPT !.state = "killed"]]]
                  ELSE started
  /\ runner' = RunnerIdle
  /\ UNCHANGED pipeline

\* The loop is over (lines 55-64): main prints the manual next steps, the
\* command of the posting tool among them, and returns.
MainDone ==
  /\ runner.pc = "loop" /\ runner.i > Len(tools)
  /\ runner' = RunnerIdle
  /\ UNCHANGED <<started, pipeline>>

\* The state before the first run: no data file, no image, the clock at 0.
InitWith(feeds) ==
  /\ file = <<>> /\ fileExists = FALSE
  /\ disk = {}
  /\ tweets = <<>>
  /\ now = 0
  /\ stage = [p \in Procs |-> "idle"]
  /\ pc = [p \in Procs |-> "-"]
  /\ data = [p \in Procs |-> <<>>]
  /\ todo = [p \in Procs |-> <<>>]
  /\ count = [p \in Procs |-> 0]
  /\ cands = [p \in Procs |-> <<>>]
  /\ approved = [p \in Procs |-> <<>>]
  /\ rejected = [p \in Procs |-> {}]
  /\ runFeed = [p \in Procs |-> <<>>]
  /\ sent = [p \in Procs |-> 0]
  /\ waited = [p \in Procs |-> TRUE]
  /\ calls = [p \in Procs |-> <<>>]
  /\ killed = NotKilled
  /\ feed \in feeds
  /\ runner = RunnerIdle
  /\ started = <<>>
  /\ discDone = FALSE
  /\ lostPost = FALSE

(* The pipeline: the four stage programs run one after another, in any order *)
(* and any number of times, and a run may be killed at any step.  The feeds  *)
(* serve one article, possibly several times.                                *)
OneArticle == { f \in Feeds : \A i \in 1..Len(f) : \A j \in 1..Len(f[i]) : f[i][j] = 1 }

Init == InitWith(OneArticle)

Next ==
  \/ DiscStart("a", FALSE)
  \/ DiscEntry("a")
  \/ DiscFinish("a")
  \/ EnrStart("a", FALSE)
  \/ EnrReturn("a")
  \/ EnrTopic("a", MaxCands)
  \/ EnrCandidate("a")
  \/ EnrTopicDone("a")
  \/ EnrSave("a")
  \/ CompStart("a", FALSE)
  \/ CompReturn("a")
  \/ CompTopic("a", GenScriptsPlain)
  \/ CompSave("a")
  \/ PubStart("a", FALSE)
  \/ PubTopic("a")
  \/ PubSave("a")
  \/ PubReturn("a")
  \/ Crash("a")

Spec == Init /\ [][Next]_vars

(* Discovery alone, over feeds that serve up to NumLinks articles.           *)
InitDisc == InitWith(Feeds)

NextDisc ==
  \/ DiscStart("a", FALSE)
  \/ DiscEntry("a")
  \/ DiscFinish("a")
  \/ Crash("a")

SpecDisc == InitDisc /\ [][NextDisc]_vars

(* Discovery and Enrichment of one article, with every page the scraper can *)
(* meet: og:image or not, and up to ArticleImageCap article images.          *)
AllCands == 1 + ArticleImageCap

NextEnr ==
  \/ DiscStart("a", FALSE)
  \/ DiscEntry("a")
  \/ DiscFinish("a")
  \/ EnrStart("a", FALSE)
  \/ EnrReturn("a")
  \/ EnrTopic("a", AllCands)
  \/ EnrCandidate("a")
  \/ EnrTopicDone("a")
  \/ EnrSave("a")
  \/ Crash("a")

SpecEnr == Init /\ [][NextEnr]_vars

(* Publication over a store of two articles as the earlier stages leave     *)
(* them: discovered at seconds 6 and 12, each with one approved image, and   *)
(* each either composed or still waiting for its copy.                       *)
EnrichedTopic(url) ==
  PromoteTopic(NewTopic(url, generate_topic_id(url * SleepSecs)),
               <<SavePath(generate_topic_id(url * SleepSecs), 2)>>, {})

PubRecords(url) ==
  { EnrichedTopic(url) } \cup { ComposeTopic(EnrichedTopic(url), j) : j \in GenJson }

PubStores == { <<r1, r2>> : r1 \in PubRecords(1), r2 \in PubRecords(2) }

InitPub ==
  /\ file \in PubStores /\ fileExists = TRUE
  /\ disk = { [path |-> file[i].downloaded_image, content |-> <<file[i].id, 1>>] : i \in 1..2 }
  /\ tweets = <<>>
  /\ now = 2 * SleepSecs
  /\ stage = [p \in Procs |-> "idle"]
  /\ pc = [p \in Procs |-> "-"]
  /\ data = [p \in Procs |-> <<>>]
  /\ todo = [p \in Procs |-> <<>>]
  /\ count = [p \in Procs |-> 0]
  /\ cands = [p \in Procs |-> <<>>]
  /\ approved = [p \in Procs |-> <<>>]
  /\ rejected = [p \in Procs |-> {}]
  /\ runFeed = [p \in Procs |-> <<>>]
  /\ sent = [p \in Procs |-> 0]
  /\ waited = [p \in Procs |-> TRUE]
  /\ calls = [p \in Procs |-> <<>>]
  /\ killed = NotKilled
  /\ feed = [i \in 1..Len(Sources) |-> <<i>>]
  /\ runner = RunnerIdle
  /\ started = <<>>
  /\ discDone = TRUE
  /\ lostPost = FALSE

NextPub ==
  \/ PubStart("a", FALSE)
  \/ PubTopic("a")
  \/ PubSave("a")
  \/ PubReturn("a")
  \/ Crash("a")

SpecPub == InitPub /\ [][NextPub]_vars

(* Publication over stores whose post texts are as long as a generation      *)
(* service that ignores the budget can make them (Composition stores the text *)
(* as it comes).                                                              *)
PostLens == {PostBudget, TweetLimit - UrlAllowance - BreakAllowance, MaxText}

PostRecords(url) ==
  { ComposeTopic(EnrichedTopic(url), [title |-> 1, post_text |-> n]) : n \in PostLens }

PostStores == { <<r1, r2>> : r1 \in PostRecords(1), r2 \in PostRecords(2) }

InitPost ==
  /\ file \in PostStores /\ fileExists = TRUE
  /\ disk = { [path |-> file[i].downloaded_image, content |-> <<file[i].id, 1>>] : i \in 1..2 }
  /\ tweets = <<>>
  /\ now = 2 * SleepSecs
  /\ stage = [p \in Procs |-> "idle"]
  /\ pc = [p \in Procs |-> "-"]
  /\ data = [p \in Procs |-> <<>>]
  /\ todo = [p \in Procs |-> <<>>]
  /\ count = [p \in Procs |-> 0]
  /\ cands = [p \in Procs |-> <<>>]
  /\ approved = [p \in Procs |-> <<>>]
  /\ rejected = [p \in Procs |-> {}]
  /\ runFeed = [p \in Procs |-> <<>>]
  /\ sent = [p \in Procs |-> 0]
  /\ waited = [p \in Procs |-> TRUE]
  /\ calls = [p \in Procs |-> <<>>]
  /\ killed = NotKilled
  /\ feed = [i \in 1..Len(Sources) |-> <<i>>]
  /\ runner = RunnerIdle
  /\ started = <<>>
  /\ discDone = TRUE
  /\ lostPost = FALSE

SpecPost == InitPost /\ [][NextPub]_vars

(* Composition over the same two-article stores, the generation service      *)
(* answering every attempt in every way.                                     *)
NextComp ==
  \/ CompStart("a", FALSE)
  \/ CompReturn("a")
  \/ CompTopic("a", GenScripts)
  \/ CompSave("a")
  \/ Crash("a")

SpecComp == InitPub /\ [][NextComp]_vars

(* The four stages over two articles, each source serving its own article,  *)
(* with at most one candidate image per article: a run can be killed before, *)
(* between and after its two records.                                        *)
TwoArticles == { f \in Feeds : \A i \in 1..Len(Sources) : f[i] = <<i>> }

InitKill == InitWith(TwoArticles)

\* The generation service either fails every attempt or sends one fixed copy.
KillScripts ==
  { script \in GenScriptsPlain :
      generate_for_topic(script) \in {None, [title |-> 1, post_text |-> PostBudget]} }

NextKill ==
  \/ DiscStart("a", FALSE)
  \/ DiscEntry("a")
  \/ DiscFinish("a")
  \/ EnrStart("a", FALSE)
  \/ EnrReturn("a")
  \/ EnrTopic("a", 1)
  \/ EnrCandidate("a")
  \/ EnrTopicDone("a")
  \/ EnrSave("a")
  \/ CompStart("a", FALSE)
  \/ CompReturn("a")
  \/ CompTopic("a", KillScripts)
  \/ CompSave("a")
  \/ PubStart("a", FALSE)
  \/ PubTopic("a")
  \/ PubSave("a")
  \/ PubReturn("a")
  \/ Crash("a")

SpecKill == InitKill /\ [][NextKill]_vars

(* Two stage programs started without waiting for each other, over the       *)
(* two-article stores: process a runs Composition and process b Publication.  *)
NextOverlap ==
  \/ CompStart("a", TRUE)
  \/ CompReturn("a")
  \/ CompTopic("a", KillScripts)
  \/ CompSave("a")
  \/ PubStart("b", TRUE)
  \/ PubTopic("b")
  \/ PubSave("b")
  \/ PubReturn("b")

SpecOverlap == InitPub /\ [][NextOverlap]_vars

(* The sequential runner alone, run up to MaxRuns times: its tools are child  *)
(* processes that end with any return code, and the runner may be interrupted *)
(* at any point.                                                              *)
InitRun == InitWith({[i \in 1..Len(Sources) |-> <<>>]})

NextRun ==
  \/ MainStart
  \/ RunScript
  \/ \E returncode \in ReturnCodes : ChildExit(returncode)
  \/ Interrupt
  \/ MainDone

SpecRun == InitRun /\ [][NextRun]_vars

(* ================================================================ claims *)
Advanced == {"image_downloaded", "content_generated", "posted"}

HasUrl(store, url) == \E i \in 1..Len(store) : store[i].source_article_url = url

Refs(t) == (IF t.downloaded_image # NoPath THEN <<t.downloaded_image>> ELSE <<>>)
           \o t.additional_images

RefCount(store, path) ==
  Cardinality({ ik \in UNION { {<<i, k>> : k \in 1..Len(Refs(store[i]))} : i \in 1..Len(store) } :
                  Refs(store[ik[1]])[ik[2]] = path })

Stamped(t) == /\ t.status = "posted" /\ t.posted_tweet_id # 0
              /\ t.posted_at # 0 /\ t.final_url # 0

(* ---- C1 *)
StepForward(old, new) ==
  \A i \in 1..Len(old) :
    /\ i <= Len(new)
    /\ new[i].id = old[i].id
    /\ Rank(new[i].status) - Rank(old[i].status) \in {0, 1}

\* C1: in sequential runs a record's status, in the persisted store and in the
\* memory of the running stage, changes only by one step forward along
\* detected, image_downloaded, content_generated, posted.
C1_StatusForward ==
  [][ /\ StepForward(file, file')
      /\ \A p \in Procs : (stage[p] # "idle" /\ stage'[p] = stage[p])
                            => StepForward(data[p], data'[p]) ]_vars

C1_Witness == \E i \in 1..Len(file) : file[i].status = "posted" /\ tweets # <<>>

(* ---- C2 *)
SecondRunEnds == /\ DiscFinish("a")
                 /\ discDone
                 /\ runFeed["a"] = AllEntries

UniqueUrls(store) ==
  \A i, j \in 1..Len(store) :
    store[i].source_article_url = store[j].source_article_url => i = j

\* C3: no two records of the store, persisted or in the memory of a running
\* stage, have the same source_article_url.
C3_UniqueSource == UniqueUrls(file) /\ \A p \in Procs : UniqueUrls(data[p])

C3_Witness ==
  /\ stage["a"] = "discovery" /\ runFeed["a"] = <<1, 1>> /\ todo["a"] = <<>>
  /\ file # <<>> /\ Len(data["a"]) = 1

(* ---- C4 *)
\* C4 as stated: no record is accepted twice by the posting API, whatever is
\* interrupted, the step between the acceptance of a post and the save included.
C4_Claim ==
  \A k1, k2 \in 1..Len(tweets) : tweets[k1] = tweets[k2] => k1 = k2

(* ---- C5 *)
C5_SaveInv ==
  \A p \in Procs :
    stage[p] = "publication" =>
      /\ pc[p] = "save" =>
           /\ Stamped(data[p][Head(todo[p])])
           /\ tweets # <<>> /\ tweets[Len(tweets)] = data[p][Head(todo[p])].id
      /\ pc[p] = "loop" => file = data[p]

C5_NoRepost ==
  tweets' # tweets =>
    \A i \in 1..Len(file) :
      file[i].id = tweets'[Len(tweets')] =>
        file[i].status = "content_generated" /\ file[i].posted_tweet_id = 0

\* C5: after an accepted post the record is stamped in memory, the next step of
\* the run writes the whole store, so that the store equals the memory whenever
\* a record is presented; and a record the store shows as posted is never
\* submitted again.
C5_SavedBeforeNext == []C5_SaveInv /\ [][C5_NoRepost]_vars

C5_Witness ==
  /\ stage["a"] = "publication" /\ pc["a"] = "loop" /\ todo["a"] # <<>>
  /\ count["a"] = 0 /\ tweets # <<>>
  /\ \E i \in 1..Len(file) : Stamped(file[i]) /\ file[i].id = tweets[Len(tweets)]

(* ---- C6 *)
NoQualifying(p) ==
  CASE stage[p] = "discovery" -> data[p] = load_data
    [] stage[p] = "enrichment" ->
         \A i \in 1..Len(load_data) : load_data[i].status # "detected"
    [] stage[p] = "composition" ->
         \A i \in 1..Len(file) :
           ~(file[i].status = "image_downloaded" /\ file[i].generated_title = 0)
    [] stage[p] = "publication" ->
         \A i \in 1..Len(file) :
           ~(file[i].status = "content_generated" /\ file[i].posted_tweet_id = 0)
    [] OTHER -> FALSE

\* C6: while a stage runs and the persisted store holds no record that qualifies
\* for it (for Discovery: the run has appended nothing), no step of the run
\* changes the persisted store.
C6_NoQualifyingNoChange ==
  [][ \A p \in Procs :
        (stage[p] # "idle" /\ NoQualifying(p))
          => (file' = file /\ fileExists' = fileExists) ]_vars

C6_Witness ==
  /\ stage["a"] = "enrichment" /\ pc["a"] = "return"
  /\ \E i \in 1..Len(file) : file[i].status = "content_generated"

(* ---- C7 *)
\* C7 as stated: the generated_post_text of a promoted record never exceeds the
\* 80 characters of the channel budget.
C7_Claim ==
  \A i \in 1..Len(file) :
    file[i].status \in {"content_generated", "posted"}
      => file[i].generated_post_text <= PostBudget

(* ---- C8 *)
\* C8 as stated: when process_topic ends, every approved image is on disk and is
\* referenced exactly once.
C8_Original ==
  [][ EnrTopicDone("a") =>
        \A k \in 1..Len(approved["a"]) :
          /\ PathExists(disk', approved["a"][k])
          /\ RefCount(data'["a"], approved["a"][k]) = 1 ]_vars

\* C8 amended: a single approved image is on disk and referenced exactly once;
\* of two or more approved images the first is removed and referenced by no
\* record, every later one is on disk and referenced exactly once.
C8_AllButFirstKept ==
  [][ EnrTopicDone("a") =>
        LET appr == approved["a"]
            kept == IF Len(appr) >= 2 THEN Tail(appr) ELSE appr
        IN /\ \A k \in 1..Len(kept) :
                /\ PathExists(disk', kept[k])
                /\ RefCount(data'["a"], kept[k]) = 1
           /\ Len(appr) >= 2 =>
                /\ ~PathExists(disk', appr[1])
                /\ RefCount(data'["a"], appr[1]) = 0 ]_vars

C8_Witness ==
  /\ stage["a"] = "enrichment" /\ pc["a"] = "loop"
  /\ \E i \in 1..Len(data["a"]) :
       /\ data["a"][i].status = "image_downloaded"
       /\ Len(data["a"][i].additional_images) = 2
       /\ \A k \in 1..2 : PathExists(disk, data["a"][i].additional_images[k])

(* ---- C9 *)
C9_Removed ==
  (EnrCandidate("a") /\ rejected'["a"] # rejected["a"])
    => ~PathExists(disk', SavePath(data["a"][Head(todo["a"])].id, Len(approved["a"]) + 2))

C9_Unreferenced ==
  \A p \in Procs : \A c \in rejected[p] : \A f \in disk :
    f.content = c =>
      /\ \A k \in 1..Len(approved[p]) : approved[p][k] # f.path
      /\ RefCount(data[p], f.path) = 0
      /\ RefCount(file, f.path) = 0

\* C9: the file of a download the judge rejects is gone from save_path when the
\* candidate's iteration ends, and no approved path and no record refers to a
\* file holding a rejected download.
C9_RejectedRemoved == []C9_Unreferenced /\ [][C9_Removed]_vars

C9_Witness ==
  /\ stage["a"] = "enrichment" /\ pc["a"] = "cand" /\ cands["a"] = <<>>
  /\ Cardinality(rejected["a"]) = 2
  /\ Len(approved["a"]) = 2

(* ---- C10 *)
MediaMatchesStatus(t) ==
  IF t.status = "detected" THEN t.downloaded_image = NoPath
  ELSE t.status \in Advanced /\ t.downloaded_image # NoPath

\* C10: a record past detected has a primary image reference, a detected
\* record has none; in the persisted store and in a running stage's memory.
C10_MediaPrecondition ==
  /\ \A i \in 1..Len(file) : MediaMatchesStatus(file[i])
  /\ \A p \in Procs : \A i \in 1..Len(data[p]) : MediaMatchesStatus(data[p][i])

C10_Witness ==
  \E i \in 1..Len(file) :
    /\ file[i].status = "posted"
    /\ file[i].downloaded_image = SavePath(file[i].id, 3)
(* ---- C11 *)
\* C11 as stated: a record whose status is content_generated or posted has a
\* non-empty generated_title and a non-empty generated_post_text.
C11_Claim ==
  \A i \in 1..Len(file) :
    file[i].status \in {"content_generated", "posted"}
      => (file[i].generated_title # 0 /\ file[i].generated_post_text # 0)

(* ---- C12 *)
Approves(answers) == answers[Len(answers)] = "y"      \* the answer that counts is y
Skips(answers) == answers[Len(answers)] = "n"

PostCall(t) == [svc |-> "post", arg |-> t.id, n |-> 1]

\* C12: when the operator approves a record and the posting API returns an id,
\* the record is stamped (status posted, posted_tweet_id, posted_at, final_url
\* non-empty) and the save that follows persists it; when the operator skips a
\* record, no record, no byte of the store and no log of the posting API
\* changes, and the record is still content_generated.
C12_ApproveAndSkip ==
  [][ /\ \A answers \in Answers, accepted \in BOOLEAN :
           PubStep("a", answers, accepted) =>
             LET i == Head(todo["a"]) IN
             /\ (Approves(answers) /\ accepted) =>
                  /\ Stamped(data'["a"][i])
                  /\ tweets' = Append(tweets, data["a"][i].id)
                  /\ calls'["a"] = Append(calls["a"], PostCall(data["a"][i]))
             /\ Skips(answers) =>
                  /\ data'["a"] = data["a"] /\ file' = file
                  /\ tweets' = tweets /\ calls' = calls
                  /\ data["a"][i].status = "content_generated"
                  /\ todo'["a"] = Tail(todo["a"])
      /\ PubSave("a") => Stamped(file'[Head(todo["a"])]) ]_vars

C12_Witness ==
  /\ stage["a"] = "publication" /\ pc["a"] = "loop" /\ todo["a"] = <<>>
  /\ file[1].status = "content_generated" /\ file[1].posted_tweet_id = 0
  /\ Stamped(file[2])
  /\ calls["a"] = <<PostCall(file[2])>> /\ tweets = <<file[2].id>>

(* ---- C13 *)
C13_FailStep ==
  \A answers \in Answers :
    (PubStep("a", answers, FALSE) /\ Approves(answers)) =>
      /\ data'["a"] = data["a"] /\ file' = file /\ fileExists' = fileExists
      /\ tweets' = tweets
      /\ calls'["a"] = Append(calls["a"], PostCall(data["a"][Head(todo["a"])]))
      /\ stage'["a"] = "publication" /\ pc'["a"] = "loop"
      /\ todo'["a"] = Tail(todo["a"])

C13_OneCallPerRecord ==
  \A p \in Procs : \A m, n \in 1..Len(calls[p]) :
    (calls[p][m].svc = "post" /\ calls[p][m] = calls[p][n]) => m = n

\* C13: when the posting API refuses an approved record, the step changes no
\* record in memory, not the store and not the log of accepted posts, and the
\* loop goes on to the next record; and a run calls the posting API at most
\* once for a record.
C13_PostFailure == []C13_OneCallPerRecord /\ [][C13_FailStep]_vars

C13_Witness ==
  /\ stage["a"] = "publication" /\ pc["a"] = "loop" /\ todo["a"] = <<2>>
  /\ calls["a"] = <<PostCall(file[1])>> /\ tweets = <<>>
  /\ file[1].status = "content_generated" /\ file[1].posted_tweet_id = 0
  /\ data["a"] = file

(* ---- C14 *)
\* C14: when process_topic ends with exactly one approved image, whatever
\* happened to the other candidates, the record is image_downloaded, its
\* downloaded_image is the approved path, it has no additional_images, and the
\* file at that path holds a download the judge did not reject.
C14_SingleAccepted ==
  [][ (EnrTopicDone("a") /\ Len(approved["a"]) = 1) =>
        LET t == data'["a"][Head(todo["a"])] IN
        /\ t.status = "image_downloaded"
        /\ t.downloaded_image = approved["a"][1]
        /\ t.additional_images = <<>>
        /\ Refs(t) = <<approved["a"][1]>>
        /\ \E f \in disk' : f.path = approved["a"][1] /\ f.content \notin rejected["a"] ]_vars

C14_Witness ==
  /\ stage["a"] = "enrichment" /\ pc["a"] = "loop" /\ todo["a"] = <<>>
  /\ Cardinality(rejected["a"]) = 2
  /\ data["a"][1].status = "image_downloaded"
  /\ Refs(data["a"][1]) = <<SavePath(data["a"][1].id, 2)>>
  /\ \E f \in disk : f.path = SavePath(data["a"][1].id, 2) /\ f.content = <<data["a"][1].id, 2>>

(* ---- C15 *)
Unenriched(t) == t.status = "detected" /\ t.downloaded_image = NoPath

\* process_topic returns False for the record at the head of the loop: the page
\* fetch failed, the page has no image, or no candidate was approved.
C15_TopicFails ==
  /\ stage["a"] = "enrichment" /\ stage'["a"] = "enrichment"
  /\ todo["a"] # <<>> /\ todo'["a"] = Tail(todo["a"])
  /\ approved["a"] = <<>>

C15_Step ==
  /\ C15_TopicFails => Unenriched(data'["a"][Head(todo["a"])])
  /\ EnrSave("a") =>
       \A i \in 1..Len(file') : Unenriched(data["a"][i]) => Unenriched(file'[i])
  /\ EnrStart("a", FALSE) =>
       \A i \in 1..Len(file) :
         Unenriched(file[i]) => \E k \in 1..Len(todo'["a"]) : todo'["a"][k] = i

C15_NoTerminalFailure ==
  /\ \A i \in 1..Len(file) : file[i].status \in {"detected"} \cup Advanced
  /\ \A p \in Procs : \A i \in 1..Len(data[p]) : data[p][i].status \in {"detected"} \cup Advanced

\* C15: a record for which process_topic fails keeps status detected and an
\* empty downloaded_image, is saved so, and every Enrichment run selects the
\* records that are detected; no record ever has a status outside the four of
\* the pipeline.
C15_FailedStaysDetected == []C15_NoTerminalFailure /\ [][C15_Step]_vars

\* A second Enrichment run selects a record whose page an earlier run fetched
\* (its text was kept) without approving an image.
C15_Witness ==
  /\ stage["a"] = "enrichment" /\ pc["a"] = "loop" /\ todo["a"] = <<1>>
  /\ Unenriched(file[1]) /\ file[1].article_content
  /\ data["a"] = file

(* ---- C16 *)
\* The script fails k-1 times, in any way, and answers title and post_text j at
\* attempt k.
C16_SucceedsAt(script, k, j) ==
  /\ Len(script) = k /\ script[k] \in Wrap(j)
  /\ \A m \in 1..(k - 1) : script[m] \in GenFailures

C16_Returned ==
  \A k \in 1..MaxRetries : \A j \in GenJson : \A script \in GenScripts :
    C16_SucceedsAt(script, k, j) =>
      (generate_for_topic(script) = j /\ GenCalls(script, 1, MaxRetries) = k)

C16_Stored ==
  /\ \A k \in 1..MaxRetries : \A j \in GenJson :
       CompResult("a", j, k) =>
         LET i == Head(todo["a"]) IN
         /\ data'["a"][i].status = "content_generated"
         /\ data'["a"][i].generated_title = j.title
         /\ data'["a"][i].generated_post_text = j.post_text
         /\ calls'["a"] = Append(calls["a"], Call("generation", data["a"][i].id, k))
         /\ stage'["a"] = "composition" /\ todo'["a"] = Tail(todo["a"])
  /\ CompSave("a") => file' = data["a"]

\* C16: when the generation service answers title and post_text at attempt k,
\* 1 <= k <= 3, after k-1 failures of any kind, generate_for_topic returns that
\* answer after k requests; the loop body then gives the record that title and
\* text and status content_generated and goes on, and the save that ends the
\* run persists it.
C16_RetryThenSuccess == []C16_Returned /\ [][C16_Stored]_vars

C16_Witness ==
  /\ stage["a"] = "composition" /\ pc["a"] = "loop"
  /\ calls["a"] = <<Call("generation", file[1].id, MaxRetries)>>
  /\ file[1].status = "image_downloaded"
  /\ data["a"][1].status = "content_generated" /\ data["a"][1].generated_title # 0

(* ---- C17 *)
Uncomposed(t) ==
  t.status = "image_downloaded" /\ t.generated_title = 0 /\ t.generated_post_text = 0

\* Every attempt the budget allows fails.
C17_AllFail(script) ==
  /\ Len(script) >= MaxRetries
  /\ \A m \in 1..MaxRetries : script[m] \in GenFailures

C17_Returned ==
  \A script \in GenScripts :
    C17_AllFail(script) =>
      (generate_for_topic(script) = None /\ GenCalls(script, 1, MaxRetries) = MaxRetries)

C17_Step ==
  /\ CompResult("a", None, MaxRetries) =>
       /\ data'["a"] = data["a"] /\ file' = file
       /\ Uncomposed(data'["a"][Head(todo["a"])])
       /\ stage'["a"] = "composition" /\ pc'["a"] = "loop"
       /\ todo'["a"] = Tail(todo["a"])
  /\ CompSave("a") =>
       \A i \in 1..Len(file') : Uncomposed(data["a"][i]) => file'[i] = file[i]
  /\ CompStart("a", FALSE) =>
       \A i \in 1..Len(file) :
         Uncomposed(file[i]) => \E k \in 1..Len(todo'["a"]) : todo'["a"][k] = i

\* C17: when all three attempts fail, generate_for_topic returns None after
\* three requests; the loop body then changes no record and goes on to the
\* next one, the save leaves the record as the store had it, and every
\* Composition run selects the records that are image_downloaded without copy.
C17_AllAttemptsFail == []C17_Returned /\ [][C17_Step]_vars

\* Three requests were made in vain for the first record; it is as the store
\* has it and the run is about to handle the second.
C17_Witness ==
  /\ stage["a"] = "composition" /\ pc["a"] = "loop" /\ todo["a"] = <<2>>
  /\ calls["a"] = <<Call("generation", file[1].id, MaxRetries)>>
  /\ data["a"] = file
  /\ Uncomposed(file[1]) /\ Uncomposed(file[2])

(* ---- C18 *)
IdsIncrease(store) ==
  \A i, j \in 1..Len(store) : i < j => store[i].id < store[j].id

\* C18: in the store and in the memory of a Discovery run the ids are strictly
\* increasing in the order of the records (so no two are equal), and the run
\* gives a new record the time read after the delay that follows the
\* classifier call.  The clock of the model never goes backwards.
C18_IdsUniqueIncreasing ==
  /\ [](IdsIncrease(file) /\ \A p \in Procs : IdsIncrease(data[p]))
  /\ [][ \A p \in Procs :
           (stage[p] = "discovery" /\ stage'[p] = "discovery" /\ Len(data'[p]) > Len(data[p])) =>
             /\ Len(data'[p]) = Len(data[p]) + 1
             /\ data'[p][Len(data'[p])].id = now + SleepSecs
             /\ now' = now + SleepSecs ]_vars

\* Two runs, each appending one record: the second id is one delay later.
C18_Witness ==
  /\ stage["a"] = "idle" /\ Len(file) = 2
  /\ runFeed["a"] = <<>> /\ now = 3 * SleepSecs
  /\ file[1].id = SleepSecs /\ file[2].id = 3 * SleepSecs

(* ---- C19 *)
SaveAtEnd == {"discovery", "enrichment", "composition"}

\* The step kills the run of p.
Kills(p) == stage[p] # "idle" /\ killed = NotKilled /\ killed' # NotKilled

StoreKept == file' = file /\ fileExists' = fileExists

\* The records of the posts the API accepted in this run of p carry their stamp.
PostsStamped(p, store) ==
  \A k \in (Len(tweets) - count[p] + 1)..Len(tweets) :
    \E i \in 1..Len(store) : store[i].id = tweets[k] /\ Stamped(store[i])

\* C19: a kill never changes the persisted store, so nothing earlier runs saved
\* is lost.  A Discovery, Enrichment or Composition run leaves the store as it
\* was at its start for as long as it runs, so a kill leaves the store of
\* before the run.  A Publication run killed between two records leaves the
\* store equal to its memory, with the stamp of every post of the run.
C19_KillKeepsLastSave ==
  /\ [](\A p \in Procs :
          (stage[p] = "publication" /\ pc[p] \in {"loop", "return"}) =>
            (fileExists => file = data[p] /\ PostsStamped(p, file)))
  /\ [][ \A p \in Procs :
           /\ Kills(p) => StoreKept
           /\ (stage[p] \in SaveAtEnd /\ stage'[p] = stage[p]) => StoreKept ]_vars

\* A Publication run was killed after its first post was saved and before the
\* second record: the store holds the first as posted, the second as composed.
C19_Witness ==
  /\ killed = [stage |-> "publication", pc |-> "loop", left |-> 1]
  /\ Len(file) = 2 /\ tweets = <<file[1].id>>
  /\ Stamped(file[1]) /\ file[2].status = "content_generated"

(* ---- C20 *)
\* The step of p's Discovery run calls the classifier: the delay that follows
\* every call moves the clock.
Classifies(p) == stage[p] = "discovery" /\ todo[p] # <<>> /\ now' # now

\* C20: a Discovery step calls the classifier only for an entry whose link no
\* record has, neither in the data file nor in the run's memory (what was
\* loaded and what the run appended); and no link in the run's log of
\* classifier calls is the link of a record of the data file.
C20_CheckBeforeClassify ==
  /\ [](\A p \in Procs : stage[p] = "discovery" =>
          \A k \in 1..Len(calls[p]) :
            calls[p][k].svc = "classifier" => ~HasUrl(file, calls[p][k].arg))
  /\ [][ \A p \in Procs : Classifies(p) =>
           /\ ~HasUrl(data[p], Head(todo[p]))
           /\ ~HasUrl(file, Head(todo[p])) ]_vars

\* A run over two entries, the first stored by an earlier run and the second
\* not: the classifier was called once, for the second.
C20_Witness ==
  /\ stage["a"] = "discovery" /\ todo["a"] = <<>>
  /\ runFeed["a"] = <<1, 2>>
  /\ HasUrl(file, 1) /\ ~HasUrl(file, 2)
  /\ calls["a"] = <<[svc |-> "classifier", arg |-> 2, n |-> 1]>>

(* ---- C21 *)
\* The records of old are the first records of new, in the same order.
KeepsIds(old, new) ==
  /\ Len(new) >= Len(old)
  /\ \A i \in 1..Len(old) : new[i].id = old[i].id

\* C21: in sequential runs, with kills, every step keeps the ids of the
\* persisted store, in their order, and the store gets a new id only in a step
\* of a Discovery run; an existing data file never disappears.
C21_IdsOnlyGrow ==
  [][ /\ KeepsIds(file, file')
      /\ fileExists => fileExists'
      /\ Len(file') > Len(file) => \E p \in Procs : stage[p] = "discovery" ]_vars

\* Discovery added a second record after Enrichment had advanced the first.
C21_Witness ==
  /\ Len(file) = 2 /\ file[1].status = "image_downloaded"
  /\ file[2].status = "detected" /\ file[2].id = 3 * SleepSecs

(* ---- C22 *)
\* C22 as stated, for Discovery: when the classifier is called for an entry and
\* its response does not parse as the relevance result, the call is made again
\* (more than one attempt, at most the budget of three).
C22_Claim ==
  [][ \A reply \in Junk :
        (DiscStep("a", reply) /\ calls'["a"] # calls["a"]) =>
          LET made == calls'["a"][Len(calls'["a"])].n
          IN made > 1 /\ made <= MaxRetries ]_vars

(* ---- C23 *)
\* The classifier gives no result: the call raises or the answer does not parse.
NoVerdict == {ApiError} \cup Junk

\* The download arrives and every attempt of the judge raises.
GoodDownload == [err |-> FALSE, size |-> MinImageBytes]
JudgeAllRaise == [i \in 1..MaxRetries |-> "exception"]

C23_Step ==
  /\ \A reply \in NoVerdict :
       (DiscStep("a", reply) /\ now' # now) =>
         /\ stage'["a"] = "discovery" /\ todo'["a"] = Tail(todo["a"])
         /\ data'["a"] = data["a"] /\ file' = file
         /\ ~HasUrl(data'["a"], Head(todo["a"])) /\ ~HasUrl(file', Head(todo["a"]))
  /\ EnrCandStep("a", GoodDownload, JudgeAllRaise) =>
       /\ stage'["a"] = "enrichment" /\ pc'["a"] = "cand"
       /\ cands'["a"] = Tail(cands["a"]) /\ todo'["a"] = todo["a"]
       /\ approved'["a"] = approved["a"]
       /\ data'["a"] = data["a"] /\ file' = file
       /\ data'["a"][Head(todo["a"])].status = "detected"
  /\ \A n \in 1..MaxRetries :
       CompResult("a", None, n) =>
         /\ stage'["a"] = "composition" /\ todo'["a"] = Tail(todo["a"])
         /\ data'["a"] = data["a"] /\ file' = file
         /\ Uncomposed(data'["a"][Head(todo["a"])])
  /\ DiscFinish("a") =>
       \A k \in 1..Len(runFeed["a"]) :
         ~HasUrl(data["a"], runFeed["a"][k]) => ~HasUrl(file', runFeed["a"][k])
  /\ EnrStart("a", FALSE) =>
       \A i \in 1..Len(file) :
         file[i].status = "detected" => \E k \in 1..Len(todo'["a"]) : todo'["a"][k] = i
  /\ CompStart("a", FALSE) =>
       \A i \in 1..Len(file) :
         Uncomposed(file[i]) => \E k \in 1..Len(todo'["a"]) : todo'["a"][k] = i

\* C23: when the classifier gives no result (Discovery: the call raises or the
\* answer does not parse; Enrichment: every attempt of the judge raises;
\* Composition: generate_for_topic returns None) the run does not end: it goes
\* on to the next entry, candidate or record and changes no record.  The entry
\* is not stored, so a later Discovery run finds it unseen; the record keeps
\* the status its stage selects while no candidate is approved, and the next
\* run of the stage selects it.
C23_NoResultIsSkipped == [][C23_Step]_vars

\* Both records of a Composition run got no copy after three requests each:
\* the run went through its list and the records are as the store has them.
C23_Witness ==
  /\ stage["a"] = "composition" /\ pc["a"] = "loop" /\ todo["a"] = <<>>
  /\ Len(file) = 2 /\ data["a"] = file
  /\ calls["a"] = << [svc |-> "generation", arg |-> file[1].id, n |-> MaxRetries],
                     [svc |-> "generation", arg |-> file[2].id, n |-> MaxRetries] >>
  /\ Uncomposed(file[1]) /\ Uncomposed(file[2])

(* ---- C24 *)
\* C24 as stated: the text handed to the posting API never has more than 280
\* characters, whatever the lengths of the stored post text and of the URL.
C24_Claim == \A p \in Procs : sent[p] <= TweetLimit

(* ---- C25 *)
\* The step of p sends a request to the reasoning service: a relevance or copy
\* call is logged, the run ends on the result of one (the log is emptied), or
\* the media judge approves or rejects a download.
Requests(p) ==
  \/ /\ stage[p] \in {"discovery", "composition"} /\ todo[p] # <<>>
     /\ \/ Len(calls'[p]) > Len(calls[p])
        \/ stage'[p] = "idle" /\ killed' = killed
  \/ /\ stage[p] = "enrichment" /\ pc[p] = "cand"
     /\ approved'[p] # approved[p] \/ rejected'[p] # rejected[p]
     /\ stage'[p] = "enrichment" /\ pc'[p] = "cand"

\* C25 as stated: within a run, every request to the reasoning service but the
\* first comes after a wait that followed the request before it.
C25_Claim == [][ \A p \in Procs : Requests(p) => waited[p] ]_vars

(* ---- C26 *)
\* The records a stage may change: none for Discovery, the detected ones for
\* Enrichment, those image_downloaded without title for Composition, those
\* content_generated without tweet id for Publication.
Owns(st, t) ==
  CASE st = "enrichment" -> t.status = "detected"
    [] st = "composition" -> t.status = "image_downloaded" /\ t.generated_title = 0
    [] st = "publication" -> t.status = "content_generated" /\ t.posted_tweet_id = 0
    [] OTHER -> FALSE

\* C26: while a stage runs, every record of the persisted store that the stage
\* does not own is in the run's memory exactly as the store has it, and no
\* step of the run changes it in the store; so a run over records that have
\* all advanced changes nothing.
C26_OnlyOwnedChange ==
  /\ [](\A p \in Procs : stage[p] # "idle" =>
          \A i \in 1..Len(file) :
            ~Owns(stage[p], file[i]) => (i <= Len(data[p]) /\ data[p][i] = file[i]))
  /\ [][ \A p \in Procs : stage[p] # "idle" =>
           \A i \in 1..Len(file) :
             ~Owns(stage[p], file[i]) => (i <= Len(file') /\ file'[i] = file[i]) ]_vars

\* A second Enrichment run over a store whose first record an earlier run
\* advanced: it has promoted the second record and left the first as stored.
C26_Witness ==
  /\ stage["a"] = "enrichment" /\ pc["a"] = "loop" /\ todo["a"] = <<>>
  /\ Len(file) = 2 /\ file[1].status = "image_downloaded" /\ file[2].status = "detected"
  /\ data["a"][1] = file[1] /\ data["a"][2].status = "image_downloaded"

(* ---- C27 *)
\* C27: with overlapping runs every save replaces the persisted store by the
\* memory of the process that saves, whatever another process has saved since
\* that memory was loaded (the last save wins).  The witness is the state the
\* claim says is reachable.
C27_LastSaveWins ==
  [][ file' # file => \E p \in Procs : stage[p] # "idle" /\ file' = data[p] ]_vars

\* Publication (b) has posted the first record and saved it as posted (its
\* count is 1 and it is between two records), and the save of Composition (a),
\* which had loaded the store before, has put the record back to
\* content_generated without tweet id.
C27_Witness ==
  /\ stage["a"] = "idle"
  /\ stage["b"] = "publication" /\ pc["b"] = "loop" /\ count["b"] = 1
  /\ Stamped(data["b"][1]) /\ tweets = <<file[1].id>>
  /\ file[1].status = "content_generated" /\ file[1].posted_tweet_id = 0
  /\ file[2].status = "content_generated"

(* ---- C28 *)
Aborts(answers) == answers[Len(answers)] = "q"        \* the answer that counts is q

C28_Step ==
  /\ \A answers \in Answers, accepted \in BOOLEAN :
       PubStep("a", answers, accepted) =>
         /\ (calls'["a"] # calls["a"] \/ tweets' # tweets) =>
              /\ answers[Len(answers)] = "y"
              /\ calls'["a"][Len(calls'["a"])].arg = data["a"][Head(todo["a"])].id
         /\ Aborts(answers) =>
              /\ pc'["a"] = "return"
              /\ calls' = calls /\ tweets' = tweets
              /\ data' = data /\ file' = file
  /\ (stage["a"] = "publication" /\ pc["a"] = "return") =>
       /\ stage'["a"] = "idle"
       /\ tweets' = tweets /\ file' = file /\ fileExists' = fileExists

\* C28: a step of the Publication loop calls the posting API only when the
\* operator's answer for the record at hand is y.  On q the run stops at once:
\* nothing is posted or changed by that step and the only step left ends the
\* run, changing neither the store nor the log of posts.  Between two records
\* and after q the store holds the stamp of every post the run made.
C28_ApproveBeforePost ==
  /\ [](\A p \in Procs :
          (stage[p] = "publication" /\ pc[p] \in {"loop", "return"} /\ fileExists) =>
            \A k \in 1..Len(calls[p]) : \A i \in 1..Len(file) :
              (calls[p][k].svc = "post" /\ file[i].id = calls[p][k].arg
                 /\ \E m \in 1..Len(tweets) : tweets[m] = file[i].id /\ m > Len(tweets) - count[p])
                => file[i].status = "posted")
  /\ [][C28_Step]_vars

\* The operator approved the first record, which was posted and saved, and
\* answered q for the second: the run is about to end, the first record is
\* posted in the store and the second was not posted.
C28_Witness ==
  /\ stage["a"] = "publication" /\ pc["a"] = "return" /\ todo["a"] = <<2>>
  /\ count["a"] = 1 /\ tweets = <<file[1].id>>
  /\ calls["a"] = <<[svc |-> "post", arg |-> file[1].id, n |-> 1]>>
  /\ file[1].status = "posted" /\ file[2].status = "content_generated"

(* ---- C29 *)
\* The classifier's answer parses to a result with a true verdict and subjects.
Relevant(reply) ==
  \E j \in GossipJson : reply \in Wrap(j) /\ j.is_celebrity_gossip /\ j.celebrities

FreshRecord(t, url) ==
  /\ t.source_article_url = url /\ t.status = "detected"
  /\ t.downloaded_image = NoPath
  /\ t.generated_title = 0 /\ t.generated_post_text = 0
  /\ t.posted_tweet_id = 0 /\ t.manual_approved = FALSE

\* C29 as stated: for an unseen entry the run's list gets a record exactly when
\* the classifier's result has a true verdict and subjects, and the record
\* starts as detected with its media, copy and post fields empty.
C29_Claim ==
  [][ \A reply \in GossipReplies :
        (DiscStep("a", reply) /\ ~HasUrl(data["a"], Head(todo["a"]))) =>
          /\ Relevant(reply) <=>
               /\ Len(data'["a"]) = Len(data["a"]) + 1
               /\ FreshRecord(data'["a"][Len(data'["a"])], Head(todo["a"]))
          /\ ~Relevant(reply) => data'["a"] = data["a"] ]_vars

(* ---- C30 *)
\* Every path the record refers to names a file of the disk, and no path is
\* referred to twice by the record.
PathsSound(t, d) ==
  /\ \A k \in 1..Len(Refs(t)) : PathExists(d, Refs(t)[k])
  /\ \A k, m \in 1..Len(Refs(t)) : Refs(t)[k] = Refs(t)[m] => k = m

C30_Step ==
  /\ EnrTopicDone("a") =>
       (approved["a"] # <<>> =>
          /\ data'["a"][Head(todo["a"])].downloaded_image # NoPath
          /\ PathsSound(data'["a"][Head(todo["a"])], disk'))
  /\ EnrSave("a") =>
       \A i \in 1..Len(file') :
         (file'[i].status = "image_downloaded" /\ i <= Len(file) /\ file[i].status = "detected") =>
           /\ file'[i].downloaded_image # NoPath
           /\ PathsSound(file'[i], disk')

\* C30: when process_topic has promoted a record, and when the Enrichment run
\* saves, every path in downloaded_image and additional_images of a record
\* promoted in the run names a file on disk and the record's paths are pairwise
\* distinct, also after the first of several approved files was removed.
C30_PromotedPathsExist == [][C30_Step]_vars

\* The run is about to save a record promoted with two of three approved
\* images: the file of the first approved image is gone and not referred to.
C30_Witness ==
  /\ stage["a"] = "enrichment" /\ pc["a"] = "loop" /\ todo["a"] = <<>>
  /\ Len(data["a"]) = 1 /\ file[1].status = "detected"
  /\ data["a"][1].status = "image_downloaded"
  /\ data["a"][1].downloaded_image = <<data["a"][1].id, 3>>
  /\ data["a"][1].additional_images = << <<data["a"][1].id, 4>> >>
  /\ ~PathExists(disk, <<data["a"][1].id, 2>>)

\* The order C31 states: discovery, image download, upscale, content
\* generation, site creation, by the script each of them is started as.
C31_Order == <<"monitor_rss.py", "download_images.py", "upscale.py", "generate.py", "onelink.py">>

\* The script of the Publication tool.
C31_Publication == "post_to_x.py"

\* One run of the runner kept to C31: the k-th tool it started is the k-th of
\* the order, the tool before it had exited with return code 0, nothing was
\* started after a tool that exited with an error, and Publication is not
\* among the tools started.
C31_RunInOrder(run) ==
  \A k \in 1..Len(run) :
    /\ k <= Len(C31_Order) /\ run[k].script = C31_Order[k]
    /\ k > 1 => run[k - 1].state = "exited" /\ run[k - 1].returncode = 0
    /\ (run[k].state = "exited" /\ run[k].returncode # 0) => Len(run) = k
    /\ run[k].state # "exited" => Len(run) = k
    /\ run[k].script # C31_Publication

\* C31: the sequential runner starts each tool only after the previous tool
\* exited successfully, in the fixed order discovery, image download, upscale,
\* content generation, site creation; after the first tool that exits with an
\* error no later tool is started; and the runner never starts the
\* Publication tool.
C31_SequentialRunner == \A n \in 1..Len(started) : C31_RunInOrder(started[n])

\* One run of the runner ended after its third tool exited with an error, and
\* another run started all five tools, the last of which exited successfully.
C31_Witness ==
  /\ runner = RunnerIdle
  /\ \E n \in 1..Len(started) :
       /\ Len(started[n]) = 3
       /\ started[n][3].state = "exited" /\ started[n][3].returncode # 0
  /\ \E m \in 1..Len(started) :
       /\ Len(started[m]) = Len(C31_Order)
       /\ started[m][Len(C31_Order)].state = "exited"
       /\ started[m][Len(C31_Order)].returncode = 0

====
